---- MODULE Spec2Model ----
(***************************************************************************)
(* A model of src/strategy.py: the two request strategies                  *)
(* (TextRequestStrategy, ImageRequestStrategy) and the ChatFacade that     *)
(* dispatches to them and records every exchange in an in-memory history.  *)
(*                                                                         *)
(* The vendor client (Mistral) and the filesystem are the environment:     *)
(* the vendor's reply to a completion call is a nondeterministic input of  *)
(* the step that makes the call, the filesystem is the fixed table FILES.  *)
(* Every step of the model is one call of a facade method by the caller;   *)
(* op, args, outcome and calls describe that last call: its name, its      *)
(* arguments, what it returned or raised, and the strategy executions it   *)
(* made.  dropped is the number of entries clear_history removed when the  *)
(* calls since then were all get_history, and 0 otherwise.                 *)
(***************************************************************************)
EXTENDS Integers, Sequences, FiniteSets, TLC

VARIABLES strategy, history, models, op, args, outcome, calls, dropped

vars == <<strategy, history, models, op, args, outcome, calls, dropped>>

\* The longest history the model lets ask_question build.
MaxHist == 2

-----------------------------------------------------------------------------
(* Inputs *)

\* Python's None (the default of image_path, the value clear_history returns).
None == "<None>"

\* Prompts the caller asks.
Texts == {"q1", "q2"}

\* Model identifiers the caller passes to ask_question (any string is accepted).
ModelArgs == {"m1", "m3"}

\* Arguments of change_strategy and select_model: the two modes and two others.
Kinds == {"text", "image", "bogus", ""}

\* The files that exist, with their bytes (4, 2 and 0 bytes long).
FILES ==
    ("a.jpg" :> <<255, 216, 255, 224>>) @@ ("b.png" :> <<137, 80>>) @@ ("e.bin" :> <<>>)

\* Paths the caller passes: the existing files, a missing one and the empty string.
Paths == DOMAIN FILES \cup {"missing.png", ""}

\* The model catalogs settings.MODELS may hold (non-empty list per mode).
Catalogs ==
    { [text |-> <<"m1", "m2">>, image |-> <<"m3">>],
      [text |-> <<"t1">>, image |-> <<"i1", "i2">>] }

\* What client.chat.complete does: a response with content, a response whose
\* list of choices is empty, or an exception with a message.
VendorReplies ==
    { [kind |-> "ok", content |-> "c1"],
      [kind |-> "empty"],
      [kind |-> "raise", msg |-> "boom"] }

-----------------------------------------------------------------------------
(* Outcomes of a call *)

\* A return, by the Python type of the value returned: the field is named
\* after the type, so that outcomes of different types are different records.
ReturnNone == [kind |-> "return", none |-> None]

ReturnStr(s) == [kind |-> "return", str |-> s]

ReturnDict(d) == [kind |-> "return", dict |-> d]

ReturnList(l) == [kind |-> "return", list |-> l]

Raise(e) == [kind |-> "raise", exc |-> e]

-----------------------------------------------------------------------------
(* base64.b64encode(...).decode('utf-8') *)

B64Alphabet ==
    << "A", "B", "C", "D", "E", "F", "G", "H", "I", "J", "K", "L", "M",
       "N", "O", "P", "Q", "R", "S", "T", "U", "V", "W", "X", "Y", "Z",
       "a", "b", "c", "d", "e", "f", "g", "h", "i", "j", "k", "l", "m",
       "n", "o", "p", "q", "r", "s", "t", "u", "v", "w", "x", "y", "z",
       "0", "1", "2", "3", "4", "5", "6", "7", "8", "9", "+", "/" >>

B64Char(sextet) == B64Alphabet[sextet + 1]

RECURSIVE b64encode(_)
b64encode(bytes) ==
    IF Len(bytes) = 0 THEN ""
    ELSE IF Len(bytes) = 1 THEN
        LET n == bytes[1] * 65536
        IN  B64Char(n \div 262144) \o B64Char((n \div 4096) % 64) \o "=="
    ELSE IF Len(bytes) = 2 THEN
        LET n == bytes[1] * 65536 + bytes[2] * 256
        IN  B64Char(n \div 262144) \o B64Char((n \div 4096) % 64)
                \o B64Char((n \div 64) % 64) \o "="
    ELSE
        LET n == bytes[1] * 65536 + bytes[2] * 256 + bytes[3]
        IN  B64Char(n \div 262144) \o B64Char((n \div 4096) % 64)
                \o B64Char((n \div 64) % 64) \o B64Char(n % 64)
                \o b64encode(SubSeq(bytes, 4, Len(bytes)))

-----------------------------------------------------------------------------
(* The strategies *)

\* The messages TextRequestStrategy.execute sends.
TextMessages(text) == << [role |-> "user", content |-> text] >>

\* The messages ImageRequestStrategy.execute sends.
ImageMessages(text, image_data) ==
    << [role |-> "user",
        content |->
            << [type |-> "image_url",
                image_url |-> [url |-> "data:image/jpeg;base64," \o image_data]],
               [type |-> "text", text |-> text] >>] >>

\* str(e) of the exception the try block raised: the vendor's own, or the
\* IndexError of choices[0] on an empty list of choices.
ExcMessage(reply) ==
    IF reply.kind = "raise" THEN reply.msg ELSE "list index out of range"

\* Complete with the wrapping of the exception forgotten: the bare message.
CompleteBareMessage(model, reply) ==
    IF reply.kind = "ok"
    THEN [response |-> reply.content, model |-> model]
    ELSE [error |-> ExcMessage(reply), model |-> model]

\* Complete with a partial success: an empty response next to the error.
CompletePartial(model, reply) ==
    IF reply.kind = "ok"
    THEN [response |-> reply.content, model |-> model]
    ELSE [response |-> "", error |-> "Unexpected error: " \o ExcMessage(reply),
          model |-> model]

\* The body of both execute methods after the request is built: the try
\* block's return, or the except clause's.
Complete(model, reply) ==
    IF reply.kind = "ok"
    THEN [response |-> reply.content, model |-> model]
    ELSE [error |-> "Unexpected error: " \o ExcMessage(reply), model |-> model]

TextRequestStrategy_execute(text, model, reply) == Complete(model, reply)

ImageRequestStrategy_execute(text, model, image_data, reply) == Complete(model, reply)

\* One execution of a strategy, as the last call made it.
TextCall(text, model, reply) ==
    [strategy |-> "text", text |-> text, model |-> model, image_data |-> None,
     messages |-> TextMessages(text), reply |-> reply,
     result |-> TextRequestStrategy_execute(text, model, reply)]

ImageCall(text, model, image_data, reply) ==
    [strategy |-> "image", text |-> text, model |-> model, image_data |-> image_data,
     messages |-> ImageMessages(text, image_data), reply |-> reply,
     result |-> ImageRequestStrategy_execute(text, model, image_data, reply)]

-----------------------------------------------------------------------------
(* ChatFacade *)

Init ==
    /\ strategy = ""
    /\ history = <<>>
    /\ models \in Catalogs
    /\ op = "__init__"
    /\ dropped = 0
    /\ args = [api_key |-> "key"]
    /\ outcome = ReturnNone
    /\ calls = <<>>

\* change_strategy assigning before it validates.
change_strategy_assign_first(cur, strategy_type) ==
    IF strategy_type = "text" \/ strategy_type = "image"
    THEN [strategy |-> strategy_type, outcome |-> ReturnStr(strategy_type)]
    ELSE [strategy |-> strategy_type, outcome |-> Raise("ValueError")]

\* change_strategy accepting '' as a way back to the unset mode.
change_strategy_reset(cur, strategy_type) ==
    IF strategy_type = "text" \/ strategy_type = "image" \/ strategy_type = ""
    THEN [strategy |-> strategy_type, outcome |-> ReturnStr(strategy_type)]
    ELSE [strategy |-> cur, outcome |-> Raise("ValueError")]

\* The new mode and the outcome of change_strategy(strategy_type) in mode cur.
change_strategy(cur, strategy_type) ==
    IF strategy_type = "text" \/ strategy_type = "image"
    THEN [strategy |-> strategy_type, outcome |-> ReturnStr(strategy_type)]
    ELSE [strategy |-> cur, outcome |-> Raise("ValueError")]

ChangeStrategy(strategy_type) ==
    /\ strategy' = change_strategy(strategy, strategy_type).strategy
    /\ outcome' = change_strategy(strategy, strategy_type).outcome
    /\ op' = "change_strategy"
    /\ dropped' = 0
    /\ args' = [strategy_type |-> strategy_type]
    /\ calls' = <<>>
    /\ UNCHANGED <<history, models>>

\* select_model reading the facade's current mode instead of its argument.
select_model_current(mode) ==
    IF strategy = "text" THEN ReturnStr(models["text"][1])
    ELSE IF strategy = "image" THEN ReturnStr(models["image"][1])
    ELSE Raise("ValueError")

select_model(mode) ==
    IF mode = "text" THEN ReturnStr(models["text"][1])
    ELSE IF mode = "image" THEN ReturnStr(models["image"][1])
    ELSE Raise("ValueError")

SelectModel(mode) ==
    /\ outcome' = select_model(mode)
    /\ op' = "select_model"
    /\ dropped' = 0
    /\ args' = [strategy |-> mode]
    /\ calls' = <<>>
    /\ UNCHANGED <<strategy, history, models>>

\* load_image without the os.path.exists check: a missing file reads as empty.
load_image_unchecked(image_path) ==
    IF image_path \notin DOMAIN FILES
    THEN ReturnStr(b64encode(<<>>))
    ELSE ReturnStr(b64encode(FILES[image_path]))

load_image(image_path) ==
    IF image_path \notin DOMAIN FILES
    THEN Raise("FileNotFoundError")
    ELSE ReturnStr(b64encode(FILES[image_path]))

LoadImage(image_path) ==
    /\ outcome' = load_image(image_path)
    /\ op' = "load_image"
    /\ dropped' = 0
    /\ args' = [image_path |-> image_path]
    /\ calls' = <<>>
    /\ UNCHANGED <<strategy, history, models>>

\* Python's truth value of the image_path argument (None and '' are false).
Truthy(image_path) == image_path # None /\ image_path # ""

\* The branch chosen by the facade's mode instead of by the argument.
DispatchOnMode(image_path) == IF strategy = "image" THEN "image" ELSE "text"

\* The branch "if image_path:" takes.
Dispatch(image_path) == IF Truthy(image_path) THEN "image" ELSE "text"

\* The history kept as one mapping keyed by prompt: a repeated prompt
\* overwrites its entry.
HistoryPutByKey(h, text, response) ==
    IF \E i \in 1..Len(h) : text \in DOMAIN h[i]
    THEN [i \in 1..Len(h) |-> IF text \in DOMAIN h[i] THEN text :> response ELSE h[i]]
    ELSE Append(h, text :> response)

\* The history recording successes only.
HistoryAppendOnSuccess(h, text, response) ==
    IF "error" \in DOMAIN response THEN h ELSE Append(h, text :> response)

\* self.history.append({text: response})
HistoryAppend(h, text, response) == Append(h, text :> response)

AskQuestion(text, model, image_path, reply) ==
    /\ Len(history) < MaxHist
    /\ IF Dispatch(image_path) = "image"
       THEN LET base64_image == load_image(image_path)
            IN  IF base64_image.kind = "raise"
                THEN /\ outcome' = base64_image
                     /\ calls' = <<>>
                     /\ history' = history
                ELSE LET call == ImageCall(text, model, base64_image.str, reply)
                     IN  /\ calls' = <<call>>
                         /\ history' = HistoryAppend(history, text, call.result)
                         /\ outcome' = ReturnDict(call.result)
       ELSE LET call == TextCall(text, model, reply)
            IN  /\ calls' = <<call>>
                /\ history' = HistoryAppend(history, text, call.result)
                /\ outcome' = ReturnDict(call.result)
    /\ op' = "ask_question"
    /\ dropped' = 0
    /\ args' = [text |-> text, model |-> model, image_path |-> image_path]
    /\ UNCHANGED <<strategy, models>>

GetHistory ==
    /\ outcome' = ReturnList(history)
    /\ op' = "get_history"
    /\ dropped' = dropped
    /\ args' = <<>>
    /\ calls' = <<>>
    /\ UNCHANGED <<strategy, history, models>>

\* clear_history dropping the newest entry only.
DropLast(h) == IF Len(h) = 0 THEN h ELSE SubSeq(h, 1, Len(h) - 1)

\* self.history = []
Cleared(h) == <<>>

ClearHistory ==
    /\ history' = Cleared(history)
    /\ outcome' = ReturnNone
    /\ op' = "clear_history"
    /\ dropped' = Len(history) - Len(history')
    /\ args' = <<>>
    /\ calls' = <<>>
    /\ UNCHANGED <<strategy, models>>

Next ==
    \/ \E strategy_type \in Kinds : ChangeStrategy(strategy_type)
    \/ \E mode \in Kinds : SelectModel(mode)
    \/ \E image_path \in Paths : LoadImage(image_path)
    \/ \E text \in Texts, model \in ModelArgs, image_path \in Paths \cup {None},
          reply \in VendorReplies :
            AskQuestion(text, model, image_path, reply)
    \/ GetHistory
    \/ ClearHistory

Spec == Init /\ [][Next]_vars

-----------------------------------------------------------------------------
(* Properties *)

Asked == op = "ask_question"

Returned == outcome.kind = "return"

NotFound == Raise("FileNotFoundError")

InvalidArgument == Raise("ValueError")

\* The base64 text of each file of FILES, as Python's base64.b64encode gives it.
ExpectedBase64 == ("a.jpg" :> "/9j/4A==") @@ ("b.png" :> "iVA=") @@ ("e.bin" :> "")

\* C1: when the vendor call raises, the strategy that made it returns
\* {error: "Unexpected error: <message>", model} and ask_question returns that
\* Result to its caller instead of raising.
C1_VendorFaultReturnedInBand ==
    (Asked /\ Len(calls) = 1 /\ calls[1].reply.kind = "raise") =>
        /\ calls[1].result =
               [error |-> "Unexpected error: " \o calls[1].reply.msg,
                model |-> args.model]
        /\ outcome = ReturnDict(calls[1].result)

C1_Witness ==
    /\ Asked
    /\ args.image_path = "a.jpg"
    /\ Len(calls) = 1
    /\ calls[1].strategy = "image"
    /\ calls[1].reply.kind = "raise"
    /\ outcome = ReturnDict([error |-> "Unexpected error: boom", model |-> args.model])

\* C2: ask_question(text, model) without an image path, the text endpoint
\* returning content C, returns {response: C, model} and appends exactly the
\* entry {text: result} to the end of the history, also when the prompt is
\* already in the history.
C2_TextAnswerAppended ==
    [][(op' = "ask_question" /\ args'.image_path = None
            /\ calls'[1].reply.kind = "ok") =>
          /\ outcome' = ReturnDict([response |-> calls'[1].reply.content,
                                    model |-> args'.model])
          /\ history' = Append(history, args'.text :> outcome'.dict)]_vars

C2_Witness ==
    /\ Asked
    /\ args.image_path = None
    /\ calls[1].reply.kind = "ok"
    /\ Len(history) = 2
    /\ DOMAIN history[1] = DOMAIN history[2]
    /\ history[2] = (args.text :> [response |-> "c1", model |-> args.model])

C4_MissingPathAlwaysRaises ==
    /\ (op = "load_image" /\ args.image_path \notin DOMAIN FILES) =>
           outcome = NotFound
    /\ (Asked /\ args.image_path # None /\ args.image_path \notin DOMAIN FILES) =>
           outcome = NotFound /\ calls = <<>>

\* C4 as amended: for every path of a missing file, load_image raises not-found
\* and ask_question with that path never executes the image strategy; when the
\* path is not the empty string ask_question raises not-found and makes no
\* vendor call, and when it is the empty string ask_question executes the text
\* strategy once and returns its Result.
C4_MissingPathNeverReachesImage ==
    /\ (op = "load_image" /\ args.image_path \notin DOMAIN FILES) =>
           outcome = NotFound
    /\ (Asked /\ args.image_path # None /\ args.image_path \notin DOMAIN FILES) =>
           /\ \A i \in 1..Len(calls) : calls[i].strategy # "image"
           /\ IF args.image_path # ""
              THEN outcome = NotFound /\ calls = <<>>
              ELSE /\ Len(calls) = 1
                   /\ calls[1].strategy = "text"
                   /\ outcome = ReturnDict(calls[1].result)

C4_Witness ==
    /\ Asked
    /\ args.image_path = "missing.png"
    /\ outcome = NotFound
    /\ calls = <<>>

\* C5: change_strategy(kind) with a kind other than "text" and "image" raises
\* invalid-argument and leaves the mode and the history as they were; with
\* "text" or "image" it sets the mode to kind and returns it.
C5_ChangeStrategyValidates ==
    [][op' = "change_strategy" =>
          IF args'.strategy_type \in {"text", "image"}
          THEN /\ strategy' = args'.strategy_type
               /\ outcome' = ReturnStr(args'.strategy_type)
          ELSE /\ outcome' = InvalidArgument
               /\ strategy' = strategy
               /\ history' = history]_vars

C5_Witness ==
    /\ op = "change_strategy"
    /\ args.strategy_type = "bogus"
    /\ outcome = InvalidArgument
    /\ strategy = "image"
    /\ Len(history) > 0

\* C6: the mode starts unset, is always one of unset, text and image, changes
\* only in a change_strategy step, and never returns to unset once it left it.
C6_ModeStateMachine ==
    /\ strategy = ""
    /\ [](strategy \in {"", "text", "image"})
    /\ [][/\ strategy' # strategy => op' = "change_strategy"
          /\ strategy # "" => strategy' # ""]_vars

C6_Witness ==
    /\ strategy = "text"
    /\ op = "change_strategy"
    /\ args.strategy_type = ""
    /\ outcome = InvalidArgument
    /\ Len(history) = 2

\* C7: a step leaves the history as it was, appends one entry to it (an
\* ask_question step) or empties it (a clear_history step); clear_history
\* always empties it, and get_history right after clear_history returns the
\* empty sequence.
C7_HistoryOnlyGrowsOrClears ==
    [][/\ \/ history' = history
          \/ /\ op' = "ask_question"
             /\ Len(history') = Len(history) + 1
             /\ SubSeq(history', 1, Len(history)) = history
          \/ op' = "clear_history" /\ history' = <<>>
       /\ op' = "clear_history" => history' = <<>>
       /\ (op = "clear_history" /\ op' = "get_history") =>
              outcome' = ReturnList(<<>>)]_vars

C7_Witness ==
    /\ op = "get_history"
    /\ dropped = 2
    /\ Len(outcome.list) = 0

\* C8: ask_question chooses the strategy by its image_path argument alone and
\* executes it once: the image strategy with (text, model, base64 of the file)
\* when a path of an existing file is given, the text strategy with
\* (text, model) when no path is given, whatever the facade's mode; no call
\* executes a strategy twice.
C8_DispatchOnImagePath ==
    Asked =>
        /\ Len(calls) <= 1
        /\ args.image_path = None =>
               /\ Len(calls) = 1
               /\ calls[1].strategy = "text"
               /\ calls[1].text = args.text
               /\ calls[1].model = args.model
               /\ calls[1].messages = <<[role |-> "user", content |-> args.text]>>
        /\ args.image_path \in DOMAIN FILES =>
               /\ Len(calls) = 1
               /\ calls[1].strategy = "image"
               /\ calls[1].text = args.text
               /\ calls[1].model = args.model
               /\ calls[1].image_data = ExpectedBase64[args.image_path]
               /\ calls[1].messages[1].content[1].image_url.url =
                      "data:image/jpeg;base64," \o ExpectedBase64[args.image_path]
               /\ calls[1].messages[1].content[2].text = args.text

C8_Witness ==
    /\ Asked
    /\ strategy = "text"
    /\ args.image_path = "a.jpg"
    /\ Len(calls) = 1
    /\ calls[1].strategy = "image"
    /\ calls[1].image_data = "/9j/4A=="
    /\ "error" \in DOMAIN calls[1].result

\* A Result of one of the two shapes {response, model} and {error, model}.
IsResult(r) ==
    \/ DOMAIN r = {"response", "model"}
    \/ DOMAIN r = {"error", "model"}

\* C9: the Result a strategy returns, the Result ask_question returns and the
\* Result of every history entry has either the keys {response, model} or the
\* keys {error, model}, and the model of a returned Result (the one the newest
\* history entry holds) is the model argument of the call.
C9_ResultShape ==
    /\ \A i \in 1..Len(history) :
           \A text \in DOMAIN history[i] :
               IsResult(history[i][text]) /\ history[i][text].model \in ModelArgs
    /\ \A i \in 1..Len(calls) :
           IsResult(calls[i].result) /\ calls[i].result.model = calls[i].model
    /\ (Asked /\ Returned) =>
           /\ IsResult(outcome.dict)
           /\ outcome.dict.model = args.model
           /\ history[Len(history)] = (args.text :> outcome.dict)

C9_Witness ==
    /\ Asked
    /\ Returned
    /\ Len(history) = 2
    /\ DOMAIN history[1][CHOOSE t \in DOMAIN history[1] : TRUE] = {"error", "model"}
    /\ DOMAIN outcome.dict = {"response", "model"}
    /\ history[1][CHOOSE t \in DOMAIN history[1] : TRUE].model # outcome.dict.model

\* The catalog of the scenario: {"text": ["m1", "m2"], "image": ["m3"]}.
ScenarioCatalog == [text |-> <<"m1", "m2">>, image |-> <<"m3">>]

\* C10: select_model(mode) returns the first identifier of the catalog's list
\* for mode when mode is "text" or "image" ("m1" and "m3" with the scenario's
\* catalog) and raises invalid-argument otherwise, whatever the facade's mode,
\* and changes no facade state.
C10_SelectModelFirstOfCatalog ==
    [][op' = "select_model" =>
          /\ IF args'.strategy \in {"text", "image"}
             THEN /\ outcome' = ReturnStr(Head(models[args'.strategy]))
                  /\ models = ScenarioCatalog =>
                         outcome'.str = IF args'.strategy = "text" THEN "m1" ELSE "m3"
             ELSE outcome' = InvalidArgument
          /\ UNCHANGED <<strategy, history, models>>]_vars

C10_Witness ==
    /\ op = "select_model"
    /\ args.strategy = "image"
    /\ strategy = "text"
    /\ models = ScenarioCatalog
    /\ outcome = ReturnStr("m3")

====
